---- MODULE Spec2Model ----
(***************************************************************************)
(* Model of src/main.py: a chainlit application that forwards every chat   *)
(* message of a session, together with the session's transcript, to an     *)
(* orchestrator agent (Runner.run) and records the reply.                  *)
(*                                                                         *)
(* Python objects with identity (lists, agents, configurations) are        *)
(* modelled by references: a list is an identifier into `heap`, so that    *)
(* two names bound to one list see each other's appends, and two lists     *)
(* with equal contents stay different objects.                             *)
(*                                                                         *)
(* The two handlers are coroutines.  A step of the model is the code that  *)
(* runs between two awaits; handlers of one or of several sessions         *)
(* interleave at the awaits (lines 106, 114, 129, 138, 153), the program   *)
(* holds no lock and keeps no queue.  msg.send() and msg.update() are      *)
(* taken to complete normally; Runner.run returns or raises.               *)
(***************************************************************************)
EXTENDS Integers, Sequences, FiniteSets, TLC

\* ------------------------------------------------------------------ bounds
NumSessions == 2
MaxMsgs == 3

Sessions == 1..NumSessions
Handlers == 1..MaxMsgs

\* message.content of an incoming message
Texts == {"a", "b"}
\* response.final_output of a Runner.run call that returns
Outputs == {"x", "y"}
\* the exception of a Runner.run call that raises: Exception() and Exception("timeout")
Excs == {[args |-> <<>>], [args |-> <<"timeout">>]}
\* os.getenv("GEMINI_API_KEY"): unset (None), set to "", set to a key
KeyEnv == {[isNone |-> TRUE, val |-> ""], [isNone |-> FALSE, val |-> ""], [isNone |-> FALSE, val |-> "k"]}

VARIABLES
    gemini_api_key,   \* line 14: the value os.getenv returned
    modpc,            \* position of the module's top-level code
    registered,       \* handlers the decorators of lines 100 and 110 have registered
    startpc,          \* per session: position of chat_start
    user_session,     \* per session: cl.user_session (a dict of references)
    heap,             \* list objects: reference -> contents
    pc,               \* per message: position of main
    message,          \* per message: the cl.Message received (and its session)
    msg,              \* per message: the reply message object, and what the UI shows of it
    locals,           \* per message: main's locals Orchestrator_agent, config, history
    call,             \* per message: the arguments Runner.run was invoked with
    response,         \* per message: how Runner.run ended
    overlapped        \* history variable: sessions in which two messages were ever handled at once

vars == <<gemini_api_key, modpc, registered, startpc, user_session, heap, pc,
          message, msg, locals, call, response, overlapped>>

\* ------------------------------------------------------------ Python values
\* The truth value of a str-or-None (used by `not gemini_api_key`, line 16).
PyNot_isNoneOnly(v) == v.isNone

PyNot(v) == v.isNone \/ v.val = ""

\* str(e) of an exception: "" without arguments, the argument when there is one.
str(e) == IF e.args = <<>> THEN "" ELSE e.args[1]

NoneRef == <<"None", 0>>
\* the list literal [] of line 103, evaluated once per chat_start
StartList(s) == <<"chat_start", s>>
\* the list literal [] of line 119, evaluated by one run of main
FreshList(h) == <<"main", h>>
ListIds == {StartList(s) : s \in Sessions} \cup {FreshList(h) : h \in Handlers}

NoneObj == [oid |-> 0]

\* ------------------------------------------------------------- set_config
Agent(name, model) == [name |-> name, model |-> model]

as_tool(agent, tool_name) == [tool_name |-> tool_name, agent |-> agent]

SpecialistTools_copyPaste(model) ==
    << as_tool(Agent("ScalpAnalyzer Agent", model), "ScalpAnalyzer"),
       as_tool(Agent("ProductRecommender Agent", model), "ScalpAnalyzer"),
       as_tool(Agent("TreatmentPlanner Agent", model), "Treatment_Planner"),
       as_tool(Agent("DietAdvisor Agent", model), "Diet_Advisor"),
       as_tool(Agent("HairLossSpecialist Agent", model), "Hairloss_Specialist") >>

SpecialistTools(model) ==
    << as_tool(Agent("ScalpAnalyzer Agent", model), "ScalpAnalyzer"),
       as_tool(Agent("ProductRecommender Agent", model), "Product_Recomemnder"),
       as_tool(Agent("TreatmentPlanner Agent", model), "Treatment_Planner"),
       as_tool(Agent("DietAdvisor Agent", model), "Diet_Advisor"),
       as_tool(Agent("HairLossSpecialist Agent", model), "Hairloss_Specialist") >>

\* set_config() builds new objects on every call; o is the identity of the
\* objects this call builds.
set_config(o) ==
    LET model == "gemini-2.5-flash" IN
    [ Orchestrator_agent |->
          [oid |-> o, name |-> "HairCare Specialist Agent",
           tools |-> SpecialistTools(model), model |-> model],
      config |->
          [oid |-> o, model |-> model, api_key |-> gemini_api_key.val,
           tracing_disabled |-> TRUE] ]

\* ------------------------------------------------------------------- Init
Init ==
    /\ gemini_api_key \in KeyEnv
    /\ modpc = "import"
    /\ registered = {}
    /\ startpc = [s \in Sessions |-> "none"]
    /\ user_session = [s \in Sessions |->
           [chat_history |-> NoneRef, config |-> NoneObj, Orchestrator_agent |-> NoneObj]]
    /\ heap = [l \in ListIds |-> <<>>]
    /\ pc = [h \in Handlers |-> "idle"]
    /\ message = [h \in Handlers |-> [session |-> 0, content |-> ""]]
    /\ msg = [h \in Handlers |-> [content |-> "", shown |-> ""]]
    /\ locals = [h \in Handlers |->
           [Orchestrator_agent |-> NoneObj, config |-> NoneObj, history |-> NoneRef]]
    /\ call = [h \in Handlers |->
           [starting_agent |-> NoneObj, input |-> NoneRef, run_config |-> NoneObj]]
    /\ response = [h \in Handlers |-> [kind |-> "none", final_output |-> "", e |-> [args |-> <<>>]]]
    /\ overlapped = {}

\* ------------------------------------------------------- module top level
sessionVars == <<startpc, user_session, heap, pc, message, msg, locals, call, response, overlapped>>

\* lines 12-17: the key check; ValueError ends the import
KeyCheck ==
    /\ modpc = "import"
    /\ modpc' = IF PyNot(gemini_api_key) THEN "ConfigError" ELSE "checked"
    /\ UNCHANGED <<gemini_api_key, registered, sessionVars>>

\* lines 19-111: def set_config, and the decorators register both handlers
RegisterHandlers ==
    /\ modpc = "checked"
    /\ modpc' = "serving"
    /\ registered' = {"chat_start", "main"}
    /\ UNCHANGED <<gemini_api_key, sessionVars>>

\* ------------------------------------------------------- cl.user_session
\* cl.user_session is bound to the session of the handler that uses it.
user_session_get_global(h, key) == user_session[1][key]

user_session_get(h, key) == user_session[message[h].session][key]

\* `x or []` of line 119: a None and an empty list are both falsy
IsFalsyList(ref) == ref = NoneRef \/ heap[ref] = <<>>

Active(h) == pc[h] \notin {"idle", "done"}

\* --------------------------------------------------------------- chat_start
\* lines 102-106, up to the await of the welcome message's send()
chat_start(s) ==
    /\ "chat_start" \in registered
    /\ startpc[s] = "none"
    /\ IF s = 1 THEN TRUE ELSE startpc[s - 1] # "none"
    /\ LET built == set_config(s) IN
       user_session' = [user_session EXCEPT ![s] =
           [chat_history |-> StartList(s),
            config |-> built.config,
            Orchestrator_agent |-> built.Orchestrator_agent]]
    /\ heap' = [heap EXCEPT ![StartList(s)] = <<>>]
    /\ startpc' = [startpc EXCEPT ![s] = "welcome"]
    /\ UNCHANGED <<gemini_api_key, modpc, registered, pc, message, msg, locals,
                   call, response, overlapped>>

\* lines 106-108: send() of the welcome message completes
chat_start_sent(s) ==
    /\ startpc[s] = "welcome"
    /\ startpc' = [startpc EXCEPT ![s] = "ready"]
    /\ UNCHANGED <<gemini_api_key, modpc, registered, user_session, heap, pc,
                   message, msg, locals, call, response, overlapped>>

\* --------------------------------------------------------------------- main
\* lines 111-114: a message of session s arrives; the placeholder is sent.
\* A session receives messages once its chat_start has run to its first await;
\* messages are numbered in the order they arrive.
main_send(h, s, content) ==
    /\ "main" \in registered
    /\ startpc[s] # "none"
    /\ pc[h] = "idle"
    /\ IF h = 1 THEN TRUE ELSE pc[h - 1] # "idle"
    /\ message' = [message EXCEPT ![h] = [session |-> s, content |-> content]]
    /\ msg' = [msg EXCEPT ![h] = [content |-> "Thinking ...", shown |-> "Thinking ..."]]
    /\ pc' = [pc EXCEPT ![h] = "send"]
    /\ overlapped' = IF \E g \in Handlers : g # h /\ Active(g) /\ message[g].session = s
                     THEN overlapped \cup {s} ELSE overlapped
    /\ UNCHANGED <<gemini_api_key, modpc, registered, startpc, user_session, heap,
                   locals, call, response>>

\* lines 129-133: the arguments of Runner.run
RunnerArgs_rebuilt(h, agent, history, config) ==
    [starting_agent |-> set_config(NumSessions + h).Orchestrator_agent,
     input |-> history,
     run_config |-> set_config(NumSessions + h).config]

RunnerArgs(h, agent, history, config) ==
    [starting_agent |-> agent, input |-> history, run_config |-> config]

\* lines 116-133: read the session, append the user entry, invoke Runner.run
main_call_eager(h) ==
    /\ pc[h] = "send"
    /\ LET agent == user_session_get(h, "Orchestrator_agent")
           config == user_session_get(h, "config")
           stored == user_session_get(h, "chat_history")
           history == IF IsFalsyList(stored) THEN FreshList(h) ELSE stored
       IN /\ heap' = [heap EXCEPT ![history] =
                 heap[history] \o <<[role |-> "user", content |-> message[h].content],
                                    [role |-> "assistant", content |-> msg[h].content]>>]
          /\ locals' = [locals EXCEPT ![h] =
                 [Orchestrator_agent |-> agent, config |-> config, history |-> history]]
          /\ call' = [call EXCEPT ![h] = RunnerArgs(h, agent, history, config)]
    /\ pc' = [pc EXCEPT ![h] = "run"]
    /\ UNCHANGED <<gemini_api_key, modpc, registered, startpc, user_session,
                   message, msg, response, overlapped>>

main_call(h) ==
    /\ pc[h] = "send"
    /\ LET agent == user_session_get(h, "Orchestrator_agent")
           config == user_session_get(h, "config")
           stored == user_session_get(h, "chat_history")
           history == IF IsFalsyList(stored) THEN FreshList(h) ELSE stored
       IN /\ heap' = [heap EXCEPT ![history] =
                 Append(heap[history], [role |-> "user", content |-> message[h].content])]
          /\ locals' = [locals EXCEPT ![h] =
                 [Orchestrator_agent |-> agent, config |-> config, history |-> history]]
          /\ call' = [call EXCEPT ![h] = RunnerArgs(h, agent, history, config)]
    /\ pc' = [pc EXCEPT ![h] = "run"]
    /\ UNCHANGED <<gemini_api_key, modpc, registered, startpc, user_session,
                   message, msg, response, overlapped>>

\* lines 129-138: Runner.run returns; the reply replaces the placeholder
main_returned(h, out) ==
    /\ pc[h] = "run"
    /\ response' = [response EXCEPT ![h] = [kind |-> "ok", final_output |-> out, e |-> [args |-> <<>>]]]
    /\ msg' = [msg EXCEPT ![h] = [content |-> out, shown |-> out]]
    /\ pc' = [pc EXCEPT ![h] = "update"]
    /\ UNCHANGED <<gemini_api_key, modpc, registered, startpc, user_session, heap,
                   message, locals, call, overlapped>>

\* lines 138-148: update() completes; append the assistant entry, store the list
main_append_noSet(h) ==
    /\ pc[h] = "update"
    /\ heap' = [heap EXCEPT ![locals[h].history] =
           Append(@, [role |-> "assistant", content |-> response[h].final_output])]
    /\ pc' = [pc EXCEPT ![h] = "done"]
    /\ UNCHANGED <<gemini_api_key, modpc, registered, startpc, user_session, message, msg,
                   locals, call, response, overlapped>>

main_append(h) ==
    /\ pc[h] = "update"
    /\ heap' = [heap EXCEPT ![locals[h].history] =
           Append(@, [role |-> "assistant", content |-> response[h].final_output])]
    /\ user_session' = [user_session EXCEPT ![message[h].session].chat_history =
           locals[h].history]
    /\ pc' = [pc EXCEPT ![h] = "done"]
    /\ UNCHANGED <<gemini_api_key, modpc, registered, startpc, message, msg,
                   locals, call, response, overlapped>>

\* lines 129, 150-153: Runner.run raises e; the error text replaces the placeholder
main_raised_noUpdate(h, e) ==
    /\ pc[h] = "run"
    /\ response' = [response EXCEPT ![h] = [kind |-> "raised", final_output |-> "", e |-> e]]
    /\ msg' = [msg EXCEPT ![h].content = "Error : " \o str(e)]
    /\ pc' = [pc EXCEPT ![h] = "errupdate"]
    /\ UNCHANGED <<gemini_api_key, modpc, registered, startpc, user_session, heap,
                   message, locals, call, overlapped>>

main_raised(h, e) ==
    /\ pc[h] = "run"
    /\ response' = [response EXCEPT ![h] = [kind |-> "raised", final_output |-> "", e |-> e]]
    /\ msg' = [msg EXCEPT ![h] = [content |-> "Error : " \o str(e),
                                  shown |-> "Error : " \o str(e)]]
    /\ pc' = [pc EXCEPT ![h] = "errupdate"]
    /\ UNCHANGED <<gemini_api_key, modpc, registered, startpc, user_session, heap,
                   message, locals, call, overlapped>>

\* lines 153-154: update() completes; the handler ends
main_except_end(h) ==
    /\ pc[h] = "errupdate"
    /\ pc' = [pc EXCEPT ![h] = "done"]
    /\ UNCHANGED <<gemini_api_key, modpc, registered, startpc, user_session, heap,
                   message, msg, locals, call, response, overlapped>>

\* ------------------------------------------------------------ specification
Next ==
    \/ KeyCheck
    \/ RegisterHandlers
    \/ \E s \in Sessions : chat_start(s)
    \/ \E s \in Sessions : chat_start_sent(s)
    \/ \E h \in Handlers, s \in Sessions, content \in Texts : main_send(h, s, content)
    \/ \E h \in Handlers : main_call(h)
    \/ \E h \in Handlers, out \in Outputs : main_returned(h, out)
    \/ \E h \in Handlers : main_append(h)
    \/ \E h \in Handlers, e \in Excs : main_raised(h, e)
    \/ \E h \in Handlers : main_except_end(h)

Spec == Init /\ [][Next]_vars

\* ------------------------------------------------------------ observations
\* the transcript stored in session s: the contents of the list chat_history names
Stored(s) ==
    IF user_session[s].chat_history = NoneRef THEN <<>>
    ELSE heap[user_session[s].chat_history]

\* the same, in the state a step leads to
StoredNext(s) ==
    IF user_session'[s].chat_history = NoneRef THEN <<>>
    ELSE heap'[user_session'[s].chat_history]

\* the messages of session s received so far
HandlersOf(s) == {h \in Handlers : pc[h] # "idle" /\ message[h].session = s}

Succeeded(h) == pc[h] = "done" /\ response[h].kind = "ok"

IsPrefix(a, b) == Len(a) <= Len(b) /\ SubSeq(b, 1, Len(a)) = a

\* the user and assistant entries of the successful turns of session s among
\* messages 1..n, in the order the messages arrived
RECURSIVE Turns(_, _)
Turns(s, n) ==
    IF n = 0 THEN <<>>
    ELSE Turns(s, n - 1) \o
         (IF n \in HandlersOf(s) /\ Succeeded(n)
          THEN <<[role |-> "user", content |-> message[n].content],
                 [role |-> "assistant", content |-> response[n].final_output]>>
          ELSE <<>>)

\* ------------------------------------------------------------------ claims

\* C1: after Start and N message turns handled one after another, all of whose
\* orchestration calls succeeded, the stored transcript has exactly 2N entries:
\* the i-th message's user entry followed by the i-th call's final output.
C1_TranscriptOfSuccessfulTurns ==
    \A s \in Sessions :
        (/\ startpc[s] # "none"
         /\ s \notin overlapped
         /\ \A h \in HandlersOf(s) : Succeeded(h))
        => /\ Len(Stored(s)) = 2 * Cardinality(HandlersOf(s))
           /\ Stored(s) = Turns(s, MaxMsgs)
           /\ \A i \in 1..Len(Stored(s)) :
                  Stored(s)[i].role = IF i % 2 = 1 THEN "user" ELSE "assistant"

C1_Witness ==
    \E s \in Sessions :
        /\ s \notin overlapped
        /\ \A h \in HandlersOf(s) : Succeeded(h)
        /\ Cardinality(HandlersOf(s)) = 2
        /\ Len(Stored(s)) = 4

\* C2: when a message's orchestration call fails after N successful turns
\* handled one after another (N = 0 included), the stored transcript has
\* length 2N+1: the 2N entries of the successful turns, then the user entry
\* of the message just received.
C2_FailedTurnKeepsUserEntry ==
    \A h \in Handlers :
        (/\ pc[h] = "errupdate"
         /\ message[h].session \notin overlapped
         /\ \A g \in HandlersOf(message[h].session) \ {h} : Succeeded(g))
        => LET s == message[h].session
               N == Cardinality(HandlersOf(s) \ {h})
           IN /\ Len(Stored(s)) = 2 * N + 1
              /\ SubSeq(Stored(s), 1, 2 * N) = Turns(s, MaxMsgs)
              /\ Stored(s)[2 * N + 1] = [role |-> "user", content |-> message[h].content]

\* C3: at every invocation of Runner.run, the list passed as input has the
\* contents of the transcript stored in the session at that moment, and its
\* last entry is the user entry of the message being handled.
C3_InputIsStoredTranscript ==
    [][\A h \in Handlers :
          (pc[h] = "send" /\ pc'[h] = "run")
          => /\ heap'[call'[h].input] = StoredNext(message[h].session)
             /\ heap'[call'[h].input][Len(heap'[call'[h].input])]
                    = [role |-> "user", content |-> message[h].content]]_vars

\* C4: a session's stored transcript holds only user entries of that session's
\* messages and assistant entries of that session's replies, and it changes
\* only in a step of that session's own handlers.
C4_OwnEntries ==
    \A s \in Sessions : \A i \in 1..Len(Stored(s)) :
        \E h \in HandlersOf(s) :
            \/ Stored(s)[i] = [role |-> "user", content |-> message[h].content]
            \/ /\ response[h].kind = "ok"
               /\ Stored(s)[i] = [role |-> "assistant", content |-> response[h].final_output]

C4_OwnSteps ==
    \A s \in Sessions :
        StoredNext(s) # Stored(s)
        => \E h \in Handlers : message'[h].session = s /\ pc'[h] # pc[h]

\* C4: under every interleaving of two sessions' handlers, both parts hold:
\* only own entries are stored, and only own steps change the stored transcript.
C4_SessionIsolation == [] C4_OwnEntries /\ [][C4_OwnSteps]_vars

C4_Witness ==
    \E g, h \in Handlers :
        /\ Active(g) /\ Active(h)
        /\ message[g].session # message[h].session
        /\ pc[g] = "update" /\ pc[h] = "run"
        /\ Stored(message[g].session) # <<>>

\* C5: the stored transcript of a session is append-only: in every step, the
\* transcript stored before is a prefix of the transcript stored after.
C5_AppendOnly ==
    [][\A s \in Sessions : IsPrefix(Stored(s), StoredNext(s))]_vars

\* C6: the content displayed for a message is 'Thinking ...' until its call
\* ends, then "Error : " followed by the stringified exception when the call
\* raised, and the call's final output when it returned.
C6_DisplayedContent ==
    \A h \in Handlers :
        /\ pc[h] \in {"send", "run"} => msg[h].shown = "Thinking ..."
        /\ response[h].kind = "raised"
           => msg[h].shown = (IF response[h].e.args = <<>> THEN "Error : "
                              ELSE "Error : " \o response[h].e.args[1])
        /\ response[h].kind = "ok" => msg[h].shown = response[h].final_output

C6_Witness ==
    \E g, h \in Handlers :
        /\ pc[g] = "done" /\ response[g].kind = "raised" /\ msg[g].shown = "Error : timeout"
        /\ pc[h] = "done" /\ response[h].kind = "ok" /\ msg[h].shown = "y"

\* C7: when the API key is unset or empty, the import ends in the
\* configuration error and no handler is ever registered or run; a handler
\* is registered or run only after the key check has passed.
C7_NoSessionWithoutKey ==
    LET absent == gemini_api_key.isNone \/ gemini_api_key.val = ""
        entered == \/ registered # {}
                   \/ \E s \in Sessions : startpc[s] # "none"
                   \/ \E h \in Handlers : pc[h] # "idle"
    IN /\ absent => ~entered /\ modpc \in {"import", "ConfigError"}
       /\ entered => ~absent /\ modpc = "serving"

C7_Witness ==
    /\ ~gemini_api_key.isNone
    /\ gemini_api_key.val = ""
    /\ modpc = "ConfigError"

\* C8: the orchestrator a session stores carries exactly five tool wrappers,
\* each with a non-empty tool name, and no two tool names are equal.
C8_FiveDistinctToolNames ==
    \A s \in Sessions :
        startpc[s] # "none"
        => LET tools == user_session[s].Orchestrator_agent.tools
           IN /\ Len(tools) = 5
              /\ \A i \in 1..5 : tools[i].tool_name # ""
              /\ \A i, j \in 1..5 : i # j => tools[i].tool_name # tools[j].tool_name

C8_Witness ==
    \E s \in Sessions :
        /\ startpc[s] = "ready"
        /\ Len(user_session[s].Orchestrator_agent.tools) = 5

\* C9 (as stated): in a session at most one message handler is between
\* appending its user entry and finishing.
C9_NoOverlapInSession ==
    \A s \in Sessions :
        Cardinality({h \in HandlersOf(s) : pc[h] \in {"run", "update"}}) <= 1

\* C9 (amended): within one handler the orchestration call is awaited before
\* anything further happens: while the call is outstanding the handler still
\* displays the placeholder and has no result, and every list holds one user
\* entry per handler that has invoked its call on it and one assistant entry
\* per handler on it that finished after its call returned.
C9_HandlerAwaitsItsCall ==
    /\ \A h \in Handlers :
           pc[h] = "run" => response[h].kind = "none" /\ msg[h].shown = "Thinking ..."
    /\ \A l \in ListIds :
           /\ Cardinality({i \in 1..Len(heap[l]) : heap[l][i].role = "assistant"})
                  = Cardinality({h \in Handlers : locals[h].history = l /\ Succeeded(h)})
           /\ Cardinality({i \in 1..Len(heap[l]) : heap[l][i].role = "user"})
                  = Cardinality({h \in Handlers : locals[h].history = l})

C9_Witness ==
    \E g, h \in Handlers :
        /\ g # h
        /\ pc[g] = "run" /\ pc[h] = "run"
        /\ locals[g].history = locals[h].history

\* C10: the orchestrator and the run configuration Start stored in a session
\* are never changed afterwards, and every Runner.run call of the session was
\* invoked with exactly these two objects.
C10_CallUsesStored ==
    \A h \in Handlers :
        pc[h] \in {"run", "update", "errupdate", "done"}
        => /\ call[h].starting_agent = user_session[message[h].session].Orchestrator_agent
           /\ call[h].run_config = user_session[message[h].session].config

C10_StoredUnchanged ==
    \A s \in Sessions :
        startpc[s] # "none"
        => /\ user_session'[s].Orchestrator_agent = user_session[s].Orchestrator_agent
           /\ user_session'[s].config = user_session[s].config

\* C10: both parts: every call was invoked with the stored objects, and no
\* step after Start changes the stored objects.
C10_ConfigPassedUnchanged == [] C10_CallUsesStored /\ [][C10_StoredUnchanged]_vars

C10_Witness ==
    \E g, h \in Handlers :
        /\ message[g].session = message[h].session
        /\ pc[g] = "done" /\ response[g].kind = "raised"
        /\ pc[h] = "done" /\ response[h].kind = "ok"

====
